---- MODULE Spec2Model ----
(***************************************************************************)
(* mactime: bodyfile -> timeline -> CSV.                                   *)
(*                                                                         *)
(* State machine of one run of main (src/src/main.rs) through              *)
(* BodyFileParser::build and BodyFile::generate_csv (src/src/bodyfile.rs). *)
(*                                                                         *)
(* Representation of values TLC cannot hold directly:                      *)
(*  - a raw CSV field is a record [k, v]: k = "int" is the decimal text of *)
(*    the integer v; k = "big" is the decimal text of i64::MAX             *)
(*    (9223372036854775807); k = "txt" is text that is no integer;         *)
(*    k = "none" is a field the line does not have (a line of 10 fields).  *)
(*  - a DateTime<Utc> is its number of seconds since the epoch.            *)
(*  - a NaiveDate is <<year, month, day>>, ordered as chrono orders it.    *)
(*  - a formatted string is the sequence of its parts.                     *)
(***************************************************************************)
EXTENDS Integers, Sequences, FiniteSets, TLC

VARIABLES
    lines,              \* the bodyfile: the lines still as raw fields
    filter,             \* Option<DateFilter> given to build
    sorted,             \* the sort flag given to build
    output,             \* Option<&Path> given to generate_csv
    sink_errors,        \* the write_record calls the sink fails (0: the header)
    pc,                 \* position of the run
    pos,                \* number of records the reader has yielded
    first_field_count,  \* csv reader state: field count of the first record (0: none yet)
    entries,            \* BodyFile.entries
    timeline,           \* BodyFile.timeline
    ci,                 \* number of timeline events generate_csv has attempted
    stdout,             \* what was written to standard output
    stderr,             \* what was written to standard error
    file                \* what was written to the output file

vars == <<lines, filter, sorted, output, sink_errors, pc, pos, first_field_count,
          entries, timeline, ci, stdout, stderr, file>>

(***************************************************************************)
(* Bounds                                                                  *)
(***************************************************************************)
MaxLines == 2

(***************************************************************************)
(* Raw fields and lines                                                    *)
(***************************************************************************)
Dec(n) == [k |-> "int", v |-> n]
Text == [k |-> "txt", v |-> 0]
Big == [k |-> "big", v |-> 0]
Missing == [k |-> "none", v |-> 0]

RawLine(name, meta, size, t) ==
    [name |-> name, meta |-> meta, size |-> size,
     atime |-> t[1], mtime |-> t[2], ctime |-> t[3], crtime |-> t[4]]

HeaderLen == 11

FieldCount(line) == IF line.crtime.k = "none" THEN HeaderLen - 1 ELSE HeaderLen

(***************************************************************************)
(* Deserialization of one record                                           *)
(***************************************************************************)
Ok(x) == [res |-> "ok", val |-> x]
Err == [res |-> "err", val |-> 0]
Panic == [res |-> "panic", val |-> 0]

\* size: u64
parse_u64(f) == IF f.k = "int" /\ f.v >= 0 THEN Ok(f.v) ELSE Err

\* unix_date_format::deserialize: s.parse::<i64>() is an error on text that is
\* no integer and on a missing field; NaiveDateTime::from_timestamp panics on a
\* number of seconds outside chrono's range of dates, as i64::MAX is.
unix_date_format_deserialize(f) ==
    CASE f.k = "int" -> Ok(f.v)
      [] f.k = "big" -> Panic
      [] OTHER -> Err

\* The first result of rs that is not ok, or ok when all are.
RECURSIVE FirstFailure(_)
FirstFailure(rs) ==
    IF rs = <<>> THEN "ok"
    ELSE IF Head(rs).res # "ok" THEN Head(rs).res
    ELSE FirstFailure(Tail(rs))

\* #[derive(Deserialize)] BodyFileEntry: the fields are visited in the order of
\* the record (the headers): size, atime, mtime, ctime, crtime; the first failure
\* ends the visit.
DeserializeOutcome(line) ==
    FirstFailure(<<parse_u64(line.size),
                   unix_date_format_deserialize(line.atime),
                   unix_date_format_deserialize(line.mtime),
                   unix_date_format_deserialize(line.ctime),
                   unix_date_format_deserialize(line.crtime)>>)

BodyFileEntry(line) ==
    [name |-> line.name, meta |-> line.meta, size |-> line.size.v,
     atime |-> line.atime.v, mtime |-> line.mtime.v,
     ctime |-> line.ctime.v, crtime |-> line.crtime.v]

\* What reader.deserialize() yields for the next line: the csv reader is not
\* flexible, so a record whose field count differs from the first record's is an
\* error before any field is looked at.
RecordOutcome(line, ffc) ==
    IF ffc # 0 /\ FieldCount(line) # ffc THEN "err"
    ELSE DeserializeOutcome(line)

(***************************************************************************)
(* MACB flags (bitflags! struct MACB : u8)                                 *)
(***************************************************************************)
MODIFIED == 1
ACCESSED == 2
CHANGED == 4
BIRTH == 8

contains(x, flag) == (x \div flag) % 2 = 1

BitOrAt(x, y, flag) == IF contains(x, flag) \/ contains(y, flag) THEN flag ELSE 0

\* x | y on the four bits of a MACB
BitOr(x, y) ==
    BitOrAt(x, y, MODIFIED) + BitOrAt(x, y, ACCESSED)
        + BitOrAt(x, y, CHANGED) + BitOrAt(x, y, BIRTH)

\* impl fmt::Display for MACB
Display(x) ==
    << IF contains(x, MODIFIED) THEN "m" ELSE ".",
       IF contains(x, ACCESSED) THEN "a" ELSE ".",
       IF contains(x, CHANGED) THEN "c" ELSE ".",
       IF contains(x, BIRTH) THEN "b" ELSE "." >>

(***************************************************************************)
(* Dates                                                                   *)
(***************************************************************************)
\* The civil date <<year, month, day>> of a number of days since 1970-01-01
\* (proleptic Gregorian calendar, as chrono's NaiveDate).
CivilFromDays(days) ==
    LET z == days + 719468
        era == z \div 146097
        doe == z - era * 146097
        yoe == (doe - doe \div 1460 + doe \div 36524 - doe \div 146096) \div 365
        doy == doe - (365 * yoe + yoe \div 4 - yoe \div 100)
        mp == (5 * doy + 2) \div 153
        d == doy - (153 * mp + 2) \div 5 + 1
        m == IF mp < 10 THEN mp + 3 ELSE mp - 9
        y == yoe + era * 400 + (IF m <= 2 THEN 1 ELSE 0)
    IN <<y, m, d>>

\* date.date().naive_utc(): the UTC calendar date of an instant; the day of a
\* pre-epoch instant is the floor of the division.
naive_utc_date(datetime) == CivilFromDays(datetime \div 86400)

\* d1 <= d2 on NaiveDate
DateLe(d1, d2) ==
    \/ d1[1] < d2[1]
    \/ d1[1] = d2[1] /\ d1[2] < d2[2]
    \/ d1[1] = d2[1] /\ d1[2] = d2[2] /\ d1[3] <= d2[3]

\* Option<DateFilter>
NoFilter == [some |-> FALSE, start |-> <<0, 0, 0>>, end |-> <<0, 0, 0>>]
DateFilter(start, end) == [some |-> TRUE, start |-> start, end |-> end]

\* The range without its last day
out_of_range_end_excluded(date, f) ==
    IF f.some
    THEN LET naive == naive_utc_date(date)
         IN ~(DateLe(f.start, naive) /\ DateLe(naive, f.end) /\ naive # f.end)
    ELSE FALSE

out_of_range(date, f) ==
    IF f.some
    THEN LET naive == naive_utc_date(date)
         IN ~(DateLe(f.start, naive) /\ DateLe(naive, f.end))
    ELSE FALSE

(***************************************************************************)
(* build_timeline                                                          *)
(***************************************************************************)
EmptyMap == [x \in {} |-> 0]

\* macb.insert(key, flag): the flag replaces the flags the key had
entry_insert(map, key, flag) ==
    [x \in DOMAIN map \cup {key} |-> IF x = key THEN flag ELSE map[x]]

\* let current_macb = macb.entry(key).or_insert(flag); *current_macb |= flag;
entry_or_insert(map, key, flag) ==
    IF key \in DOMAIN map
    THEN [map EXCEPT ![key] = BitOr(@, flag)]
    ELSE [x \in DOMAIN map \cup {key} |->
            IF x = key THEN BitOr(flag, flag) ELSE map[x]]

\* The map without the visit of crtime
MacbMap_without_crtime(entry) ==
    LET m1 == entry_or_insert(EmptyMap, entry.mtime, MODIFIED)
        m2 == entry_or_insert(m1, entry.atime, ACCESSED)
    IN entry_or_insert(m2, entry.ctime, CHANGED)

\* The HashMap<DateTime<Utc>, MACB> of one entry
MacbMap(entry) ==
    LET m1 == entry_or_insert(EmptyMap, entry.mtime, MODIFIED)
        m2 == entry_or_insert(m1, entry.atime, ACCESSED)
        m3 == entry_or_insert(m2, entry.ctime, CHANGED)
    IN entry_or_insert(m3, entry.crtime, BIRTH)

\* The sequences that hold each element of S once
RECURSIVE Orders(_)
Orders(S) ==
    IF S = {} THEN {<<>>}
    ELSE UNION {{<<x>> \o rest : rest \in Orders(S \ {x})} : x \in S}

\* The orders in which `for (date, macb) in macb` may visit a map: the order of
\* a HashMap's iteration is any order of its keys.
IterationOrders(map) == Orders(DOMAIN map)

TimestampEntry(entry, date, macb) ==
    [datetime |-> date, macb |-> macb, meta |-> entry.meta,
     size |-> entry.size, filename |-> entry.name]

\* The visit of the map ended (break) by the first date out of range
RECURSIVE EntryEvents_break(_, _, _, _)
EntryEvents_break(entry, map, f, order) ==
    IF order = <<>> THEN <<>>
    ELSE LET date == Head(order)
         IN IF out_of_range(date, f) THEN <<>>
            ELSE <<TimestampEntry(entry, date, map[date])>>
                    \o EntryEvents_break(entry, map, f, Tail(order))

\* The events one entry pushes when its map is visited in `order`
RECURSIVE EntryEvents(_, _, _, _)
EntryEvents(entry, map, f, order) ==
    IF order = <<>> THEN <<>>
    ELSE LET date == Head(order)
             rest == EntryEvents(entry, map, f, Tail(order))
         IN IF out_of_range(date, f) THEN rest
            ELSE <<TimestampEntry(entry, date, map[date])>> \o rest

\* The sequences of events the body of `for entry in self.entries.iter()` may
\* push for one entry, one for each order of the visit of its map
EntryResults(entry, f) ==
    LET map == MacbMap(entry)
    IN {EntryEvents(entry, map, f, order) : order \in IterationOrders(map)}

\* build_timeline: the sequences of events it may push to the timeline for the
\* entries es, entry after entry
RECURSIVE build_timeline(_, _)
build_timeline(es, f) ==
    IF es = <<>> THEN {<<>>}
    ELSE {events \o rest : events \in EntryResults(Head(es), f),
                           rest \in build_timeline(Tail(es), f)}

(***************************************************************************)
(* sort_timeline                                                           *)
(***************************************************************************)
Compare(x, y) == IF x < y THEN "Less" ELSE IF x = y THEN "Equal" ELSE "Greater"

\* String::partial_cmp, the order of the bytes, on the strings of the inputs
StrRank(x) ==
    CASE x = "0-1" -> 1
      [] x = "0-2" -> 2
      [] x = "a" -> 3
      [] x = "b" -> 4

CompareStr(x, y) == Compare(StrRank(x), StrRank(y))

\* impl Ord for TimestampEntry
cmp(self, other) == Compare(self.datetime, other.datetime)

\* The comparison of the fields one after the other: datetime, macb, meta, size,
\* filename
partial_cmp_all_fields(self, other) ==
    LET c == <<Compare(self.datetime, other.datetime),
               Compare(self.macb, other.macb),
               CompareStr(self.meta, other.meta),
               Compare(self.size, other.size),
               CompareStr(self.filename, other.filename)>>
        differ == {i \in 1..5 : c[i] # "Equal"}
    IN IF differ = {} THEN "Equal"
       ELSE c[CHOOSE i \in differ : \A j \in differ : i <= j]

\* The comparison of the filenames alone
partial_cmp_filename_only(self, other) ==
    CompareStr(self.filename, other.filename)

\* impl PartialOrd for TimestampEntry
partial_cmp(self, other) ==
    IF Compare(self.datetime, other.datetime) # "Equal"
    THEN Compare(self.datetime, other.datetime)
    ELSE CompareStr(self.filename, other.filename)

\* lt as Ord::cmp would decide it: the instant alone
lt_by_cmp(self, other) == cmp(self, other) = "Less"

\* PartialOrd::lt, the provided method: TimestampEntry does not override it
lt(self, other) == partial_cmp(self, other) = "Less"

\* self.timeline.sort(): slice::sort orders by T::lt (stable_sort(self, T::lt)),
\* the method of PartialOrd, and never calls Ord::cmp; it is stable: e goes
\* before the first element it is less than.
RECURSIVE InsertSorted(_, _)
InsertSorted(s, e) ==
    IF s = <<>> THEN <<e>>
    ELSE IF lt(e, Head(s)) THEN <<e>> \o s
    ELSE <<Head(s)>> \o InsertSorted(Tail(s), e)

RECURSIVE StableSort(_, _)
StableSort(done, rest) ==
    IF rest = <<>> THEN done
    ELSE StableSort(InsertSorted(done, Head(rest)), Tail(rest))

sort_timeline(tl) == StableSort(<<>>, tl)

(***************************************************************************)
(* generate_csv: formatting                                                *)
(***************************************************************************)
\* entry.datetime.format("%Y-%m-%d %H:%M:%S"): the six numbers of the string
format_datetime(datetime) ==
    LET date == naive_utc_date(datetime)
        secs == datetime % 86400
    IN <<date[1], date[2], date[3],
         secs \div 3600, (secs \div 60) % 60, secs % 60>>

DigitChar == <<"0", "1", "2", "3", "4", "5", "6", "7", "8", "9">>

\* format!("{}", entry.size): the decimal digits of a u64
RECURSIVE format_u64(_)
format_u64(n) ==
    IF n < 10 THEN <<DigitChar[n + 1]>>
    ELSE format_u64(n \div 10) \o <<DigitChar[(n % 10) + 1]>>

\* The record generate_csv writes for one event
CsvRecord(e) ==
    <<format_datetime(e.datetime), Display(e.macb), e.meta, format_u64(e.size),
      e.filename>>

\* One thing written to a stream
Message(kind) == [kind |-> kind, row |-> <<>>]
Row(kind, fields) == [kind |-> kind, row |-> fields]

CsvHeader == Row("csv_header", <<"Datetime", "MACB", "Meta", "Size", "FileName">>)

(***************************************************************************)
(* BodyFileParser::build                                                   *)
(***************************************************************************)
NextFieldCount(line) ==
    IF first_field_count = 0 THEN FieldCount(line) ELSE first_field_count

\* for record in reader.deserialize(): a record that deserializes is added
ReadRecordOk ==
    /\ pc = "parse"
    /\ pos < Len(lines)
    /\ RecordOutcome(lines[pos + 1], first_field_count) = "ok"
    /\ entries' = Append(entries, BodyFileEntry(lines[pos + 1]))
    /\ pos' = pos + 1
    /\ first_field_count' = NextFieldCount(lines[pos + 1])
    /\ UNCHANGED <<lines, filter, sorted, output, sink_errors, pc, timeline, ci,
                   stdout, stderr, file>>

\* if let Err(e) = record { println!(...); continue; }
ReadRecordErr ==
    /\ pc = "parse"
    /\ pos < Len(lines)
    /\ RecordOutcome(lines[pos + 1], first_field_count) = "err"
    /\ stdout' = Append(stdout, Message("Error deserializing record"))
    /\ pos' = pos + 1
    /\ first_field_count' = NextFieldCount(lines[pos + 1])
    /\ UNCHANGED <<lines, filter, sorted, output, sink_errors, pc, entries,
                   timeline, ci, stderr, file>>

\* NaiveDateTime::from_timestamp panics inside the deserializer: the process ends
ReadRecordPanic ==
    /\ pc = "parse"
    /\ pos < Len(lines)
    /\ RecordOutcome(lines[pos + 1], first_field_count) = "panic"
    /\ pc' = "panicked"
    /\ first_field_count' = NextFieldCount(lines[pos + 1])
    /\ UNCHANGED <<lines, filter, sorted, output, sink_errors, pos, entries,
                   timeline, ci, stdout, stderr, file>>

\* bodyfile.build_timeline(&filter), once the reader is exhausted
BuildTimeline ==
    /\ pc = "parse"
    /\ pos = Len(lines)
    /\ \E pushed \in build_timeline(entries, filter) :
          timeline' = timeline \o pushed
    /\ pc' = "sort"
    /\ UNCHANGED <<lines, filter, sorted, output, sink_errors, pos,
                   first_field_count, entries, ci, stdout, stderr, file>>

\* if sorted { bodyfile.sort_timeline(); } Ok(bodyfile)
SortTimeline ==
    /\ pc = "sort"
    /\ timeline' = IF sorted THEN sort_timeline(timeline) ELSE timeline
    /\ pc' = "built"
    /\ UNCHANGED <<lines, filter, sorted, output, sink_errors, pos,
                   first_field_count, entries, ci, stdout, stderr, file>>

(***************************************************************************)
(* main, generate_csv                                                      *)
(***************************************************************************)
file_len == Len(entries)
datetime_len == Len(timeline)

\* eprintln!("Number of file records ..."); eprintln!("Number of datetime records ...")
ReportCounts ==
    /\ pc = "built"
    /\ stderr' = stderr \o <<Row("Number of file records", <<file_len>>),
                             Row("Number of datetime records", <<datetime_len>>)>>
    /\ pc' = "csv_open"
    /\ UNCHANGED <<lines, filter, sorted, output, sink_errors, pos,
                   first_field_count, entries, timeline, ci, stdout, file>>

\* The stream source_writer writes to
ToSink(out, msg) ==
    /\ IF out = "Some"
       THEN file' = Append(file, msg) /\ UNCHANGED stdout
       ELSE stdout' = Append(stdout, msg) /\ UNCHANGED file

\* The writer is built and the header written
WriteHeader ==
    /\ pc = "csv_open"
    /\ 0 \notin sink_errors
    /\ IF output = "Some"
       THEN /\ stdout' = Append(stdout, Message("Writing CSV to"))
            /\ file' = Append(file, CsvHeader)
       ELSE /\ stdout' = Append(stdout, CsvHeader)
            /\ UNCHANGED file
    /\ pc' = "csv_rows"
    /\ UNCHANGED <<lines, filter, sorted, output, sink_errors, pos,
                   first_field_count, entries, timeline, ci, stderr>>

\* writer.write_record(&[...headers])? fails: generate_csv returns the error
WriteHeaderErr ==
    /\ pc = "csv_open"
    /\ 0 \in sink_errors
    /\ stdout' = IF output = "Some"
                 THEN Append(stdout, Message("Writing CSV to"))
                 ELSE stdout
    /\ pc' = "failed"
    /\ UNCHANGED <<lines, filter, sorted, output, sink_errors, pos,
                   first_field_count, entries, timeline, ci, stderr, file>>

\* for entry in self.timeline.iter(): the record is written
WriteRecordOk ==
    /\ pc = "csv_rows"
    /\ ci < Len(timeline)
    /\ (ci + 1) \notin sink_errors
    /\ ToSink(output, Row("csv_row", CsvRecord(timeline[ci + 1])))
    /\ ci' = ci + 1
    /\ UNCHANGED <<lines, filter, sorted, output, sink_errors, pc, pos,
                   first_field_count, entries, timeline, stderr>>

\* The loop left (break) at the first record that fails
WriteRecordErr_break ==
    /\ pc = "csv_rows"
    /\ ci < Len(timeline)
    /\ (ci + 1) \in sink_errors
    /\ stderr' = Append(stderr, Message("Error writing CSV result"))
    /\ ci' = Len(timeline)
    /\ UNCHANGED <<lines, filter, sorted, output, sink_errors, pc, pos,
                   first_field_count, entries, timeline, stdout, file>>

\* if let Err(e) = result { eprintln!(...); continue; }
WriteRecordErr ==
    /\ pc = "csv_rows"
    /\ ci < Len(timeline)
    /\ (ci + 1) \in sink_errors
    /\ stderr' = Append(stderr, Message("Error writing CSV result"))
    /\ ci' = ci + 1
    /\ UNCHANGED <<lines, filter, sorted, output, sink_errors, pc, pos,
                   first_field_count, entries, timeline, stdout, file>>

\* writer.flush()?; Ok(())
Flush ==
    /\ pc = "csv_rows"
    /\ ci = Len(timeline)
    /\ pc' = "done"
    /\ UNCHANGED <<lines, filter, sorted, output, sink_errors, pos,
                   first_field_count, entries, timeline, ci, stdout, stderr, file>>

Next ==
    \/ ReadRecordOk
    \/ ReadRecordErr
    \/ ReadRecordPanic
    \/ BuildTimeline
    \/ SortTimeline
    \/ ReportCounts
    \/ WriteHeader
    \/ WriteHeaderErr
    \/ WriteRecordOk
    \/ WriteRecordErr
    \/ Flush

(***************************************************************************)
(* Inputs                                                                  *)
(***************************************************************************)
\* Instants named by their UTC date and time: days since the epoch, seconds of
\* the day
T1969_12_30_235959 == (0 - 2) * 86400 + 86399
T1969_12_31_000000 == (0 - 1) * 86400
T1969_12_31_235959 == (0 - 1) * 86400 + 86399
T1970_01_01_000000 == 0 * 86400
T1970_01_01_235959 == 0 * 86400 + 86399
T1970_01_02_000000 == 1 * 86400
T2020_01_31_235959 == 18292 * 86400 + 86399
T2020_02_01_000000 == 18293 * 86400

Filter1970 == DateFilter(<<1969, 12, 31>>, <<1970, 1, 1>>)
Filter2020 == DateFilter(<<2020, 1, 1>>, <<2020, 1, 31>>)

Times(a, m, c, b) == <<Dec(a), Dec(m), Dec(c), Dec(b)>>

\* Lines that fail: a line of 10 fields, a size and a time that are no numbers,
\* a time that is i64::MAX
ShortLine == RawLine("a", "0-1", Dec(1), <<Dec(0), Dec(0), Dec(0), Missing>>)
BadSizeLine == RawLine("a", "0-1", Text, Times(0, 0, 0, 0))
BadTimeLine == RawLine("b", "0-1", Dec(1), <<Text, Dec(0), Dec(0), Big>>)
HugeTimeLine == RawLine("b", "0-1", Dec(1), <<Dec(0), Big, Text, Dec(0)>>)

BadLines == {ShortLine, BadSizeLine, BadTimeLine, HugeTimeLine}

\* The sequences over S of length at most n
SeqsUpTo(S, n) == UNION {[1..k -> S] : k \in 0..n}

InitWith(Lines, Filters, Sorted, Outputs, SinkErrors) ==
    /\ lines \in SeqsUpTo(Lines, MaxLines)
    /\ filter \in Filters
    /\ sorted \in Sorted
    /\ output \in Outputs
    /\ sink_errors \in SinkErrors
    /\ pc = "parse"
    /\ pos = 0
    /\ first_field_count = 0
    /\ entries = <<>>
    /\ timeline = <<>>
    /\ ci = 0
    /\ stdout = <<>>
    /\ stderr = <<>>
    /\ file = <<>>

(***************************************************************************)
(* Spec: the whole run, on files whose entries share instants and names     *)
(***************************************************************************)
SortFiles == {<<"a", "0-1", 1>>, <<"a", "0-2", 20>>, <<"b", "0-1", 1>>}

SortTimes ==
    {Times(T1970_01_01_000000, T1970_01_01_000000, T1970_01_01_000000,
           T1970_01_01_000000),
     Times(T1970_01_02_000000, T1970_01_01_000000, T1970_01_02_000000,
           T1970_01_01_000000)}

SortLines ==
    {RawLine(f[1], f[2], Dec(f[3]), t) : f \in SortFiles, t \in SortTimes}
        \cup BadLines

Init ==
    InitWith(SortLines, {NoFilter, Filter1970}, BOOLEAN, {"None", "Some"},
             {{}, {0}, {1}})

Spec == Init /\ [][Next]_vars

(***************************************************************************)
(* SpecBuild: BodyFileParser::build alone, on entries of one to four        *)
(* distinct timestamps on both sides of the bounds of the filters           *)
(***************************************************************************)
BuildTimes ==
    {Times(T1970_01_01_000000, T1970_01_01_000000, T1970_01_01_000000,
           T1970_01_01_000000),
     Times(T1969_12_31_235959, T1969_12_31_235959, T1970_01_02_000000,
           T1969_12_31_235959),
     Times(T2020_01_31_235959, T2020_02_01_000000, T1970_01_01_000000,
           T2020_02_01_000000),
     Times(T1969_12_30_235959, T1969_12_31_000000, T1970_01_01_235959,
           T1970_01_02_000000)}

BuildLines ==
    {RawLine("a", "0-1", Dec(1), t) : t \in BuildTimes}
        \cup {RawLine("b", "0-2", Dec(20),
                      Times(T1970_01_01_000000, T1970_01_01_000000,
                            T1970_01_01_000000, T1970_01_01_000000))}
        \cup {BadTimeLine, HugeTimeLine}

InitBuild ==
    InitWith(BuildLines, {NoFilter, Filter1970, Filter2020}, BOOLEAN, {"None"},
             {{}})

NextBuild ==
    \/ ReadRecordOk
    \/ ReadRecordErr
    \/ ReadRecordPanic
    \/ BuildTimeline
    \/ SortTimeline

SpecBuild == InitBuild /\ [][NextBuild]_vars

(***************************************************************************)
(* SpecCsv: every set of failing writes                                    *)
(***************************************************************************)
CsvLines ==
    {RawLine("a", "0-1", Dec(1835008),
             Times(T1970_01_01_000000, T1970_01_01_000000, T1970_01_01_000000,
                   T1970_01_01_000000)),
     RawLine("b", "0-2", Dec(0),
             Times(T1969_12_31_235959, T2020_01_31_235959, T1969_12_31_235959,
                   T2020_01_31_235959)),
     BadTimeLine, HugeTimeLine}

InitCsv ==
    InitWith(CsvLines, {NoFilter}, {TRUE}, {"None", "Some"},
             SUBSET (0..(2 * MaxLines)))

SpecCsv == InitCsv /\ [][Next]_vars

(***************************************************************************)
(* Vocabulary of the properties                                            *)
(***************************************************************************)
\* build has returned Ok(bodyfile): the timeline is final
Returned == pc \in {"built", "csv_open", "csv_rows", "done", "failed"}

\* build_timeline has run and sort_timeline has not: the timeline is the
\* builder's output
AfterBuild == pc = "sort"

Range(s) == {s[i] : i \in 1..Len(s)}

RECURSIVE Sum(_)
Sum(s) == IF s = <<>> THEN 0 ELSE Head(s) + Sum(Tail(s))

\* The timestamp values of an entry
DistinctTimes(e) == {e.atime, e.mtime, e.ctime, e.crtime}

\* s without its first n elements
Drop(s, n) == SubSeq(s, n + 1, Len(s))

\* The events of the timeline tl that belong to entry i, when entry j pushed
\* count[j] events
Block(tl, count, i) ==
    LET before == Sum(SubSeq(count, 1, i - 1))
    IN SubSeq(tl, before + 1, before + count[i])

\* x <= y on the names of the model
NameLe(x, y) == CompareStr(x, y) # "Greater"

\* The entries the parse loop makes of a file: the records that deserialize, in
\* the order of the lines
RECURSIVE ParsedEntries(_, _)
ParsedEntries(ls, ffc) ==
    IF ls = <<>> THEN <<>>
    ELSE LET next == IF ffc = 0 THEN FieldCount(Head(ls)) ELSE ffc
         IN IF RecordOutcome(Head(ls), ffc) = "ok"
            THEN <<BodyFileEntry(Head(ls))>> \o ParsedEntries(Tail(ls), next)
            ELSE ParsedEntries(Tail(ls), next)

(***************************************************************************)
(* C1                                                                      *)
(***************************************************************************)
\* C1: with sorted = true, every two adjacent events (e1, e2) of the timeline
\* build returns have e1.instant < e2.instant, or e1.instant = e2.instant and
\* e1.name <= e2.name.
C1_SortCorrectness ==
    (sorted /\ Returned) =>
        \A i \in 1..(Len(timeline) - 1) :
            \/ timeline[i].datetime < timeline[i + 1].datetime
            \/ /\ timeline[i].datetime = timeline[i + 1].datetime
               /\ NameLe(timeline[i].filename, timeline[i + 1].filename)

\* Two entries share an instant, the one named "b" comes first in the file, and
\* the sorted timeline holds their two events side by side, "a" first.
C1_Witness ==
    /\ sorted
    /\ pc = "built"
    /\ Len(entries) >= 2
    /\ entries[1].name = "b"
    /\ entries[2].name = "a"
    /\ \E i \in 1..(Len(timeline) - 1) :
          /\ timeline[i].datetime = timeline[i + 1].datetime
          /\ timeline[i].datetime \in
                DistinctTimes(entries[1]) \cap DistinctTimes(entries[2])
          /\ timeline[i].filename = "a"
          /\ timeline[i + 1].filename = "b"

(***************************************************************************)
(* C2                                                                      *)
(***************************************************************************)
\* A line is well formed by its own fields: 11 fields, a size that is a number, and
\* four times that are signed 64-bit integers.
ClaimParses(line) ==
    /\ FieldCount(line) = HeaderLen
    /\ parse_u64(line.size).res = "ok"
    /\ \A f \in {line.atime, line.mtime, line.ctime, line.crtime} :
          f.k \in {"int", "big"}

EntriesOf(ls) ==
    LET kept == SelectSeq(ls, ClaimParses)
    IN [i \in 1..Len(kept) |-> BodyFileEntry(kept[i])]

\* C2: no single line aborts the batch: the parse loop reaches the last line,
\* every line that fails to parse is skipped, every other line is appended as
\* one entry in the order of the lines, and build goes on to build the timeline.
C2_NoLineAbortsBatch ==
    /\ pc # "panicked"
    /\ pc = "parse" => entries = EntriesOf(SubSeq(lines, 1, pos))
    /\ pc # "parse" => pos = Len(lines) /\ entries = EntriesOf(lines)

(***************************************************************************)
(* C3                                                                      *)
(***************************************************************************)
\* The stream that receives the CSV rows
CsvSink == IF output = "Some" THEN file ELSE stdout

\* C3: no failure of a record is reported on the stream that receives the CSV
\* rows, be it the named file or standard output.
C3_FailuresOffCsvStream ==
    ~ \E i, j \in 1..Len(CsvSink) :
          /\ CsvSink[i].kind = "Error deserializing record"
          /\ CsvSink[j].kind = "csv_row"

(***************************************************************************)
(* C4                                                                      *)
(***************************************************************************)
\* The number of distinct timestamp values of each entry
DistinctCounts(es) ==
    [i \in 1..Len(es) |-> Cardinality(DistinctTimes(es[i]))]

\* C4: with no filter, build_timeline makes one event for each distinct
\* timestamp value of each entry, 1 to 4 for an entry, and never merges the
\* events of two entries: the timeline is as long as the sum of the counts.
C4_OneEventPerDistinctTime ==
    (AfterBuild /\ filter = NoFilter) =>
        LET count == DistinctCounts(entries)
        IN /\ Len(timeline) = Sum(count)
           /\ \A i \in 1..Len(entries) :
                 LET b == Block(timeline, count, i)
                 IN /\ count[i] \in 1..4
                    /\ {b[j].datetime : j \in 1..Len(b)} = DistinctTimes(entries[i])
                    /\ \A j \in 1..Len(b) :
                          /\ b[j].filename = entries[i].name
                          /\ b[j].meta = entries[i].meta
                          /\ b[j].size = entries[i].size

\* Two identical lines of four distinct timestamps: eight events
C4_Witness ==
    /\ AfterBuild
    /\ filter = NoFilter
    /\ Len(entries) = 2
    /\ entries[1] = entries[2]
    /\ Cardinality(DistinctTimes(entries[1])) = 4
    /\ Len(timeline) = 8

(***************************************************************************)
(* C5                                                                      *)
(***************************************************************************)
AllFlags == {MODIFIED, ACCESSED, CHANGED, BIRTH}

Flags(x) == {flag \in AllFlags : contains(x, flag)}

Letters(x) == {p \in 1..4 : Display(x)[p] # "."}

\* C5: the category sets of the events of an entry, before any filter, are
\* together {m,a,c,b}; a category is carried by the event at the instant of
\* that category's field; four equal timestamps give one event shown macb, four
\* distinct ones give four events of one letter each.
C5_CategoryUnion ==
    (AfterBuild /\ filter = NoFilter) =>
        LET count == DistinctCounts(entries)
        IN /\ Len(timeline) = Sum(count)
           /\ \A i \in 1..Len(entries) :
                 LET b == Block(timeline, count, i)
                     e == entries[i]
                 IN /\ UNION {Flags(b[j].macb) : j \in 1..Len(b)} = AllFlags
                    /\ \A j \in 1..Len(b) :
                          /\ contains(b[j].macb, MODIFIED) <=> b[j].datetime = e.mtime
                          /\ contains(b[j].macb, ACCESSED) <=> b[j].datetime = e.atime
                          /\ contains(b[j].macb, CHANGED) <=> b[j].datetime = e.ctime
                          /\ contains(b[j].macb, BIRTH) <=> b[j].datetime = e.crtime
                    /\ count[i] = 1 =>
                          Display(b[1].macb) = <<"m", "a", "c", "b">>
                    /\ count[i] = 4 =>
                          \A j \in 1..4 : Cardinality(Letters(b[j].macb)) = 1

\* An entry of four equal timestamps and an entry of four distinct ones
C5_Witness ==
    /\ AfterBuild
    /\ filter = NoFilter
    /\ Len(entries) = 2
    /\ Cardinality(DistinctTimes(entries[1])) = 1
    /\ Cardinality(DistinctTimes(entries[2])) = 4
    /\ Len(timeline) = 5
    /\ Display(timeline[1].macb) = <<"m", "a", "c", "b">>
    /\ Display(timeline[2].macb) = <<".", ".", ".", "b">>

(***************************************************************************)
(* C6                                                                      *)
(***************************************************************************)
\* The UTC calendar date of each instant of the inputs
UtcDate(t) ==
    CASE t = T1969_12_30_235959 -> <<1969, 12, 30>>
      [] t = T1969_12_31_000000 -> <<1969, 12, 31>>
      [] t = T1969_12_31_235959 -> <<1969, 12, 31>>
      [] t = T1970_01_01_000000 -> <<1970, 1, 1>>
      [] t = T1970_01_01_235959 -> <<1970, 1, 1>>
      [] t = T1970_01_02_000000 -> <<1970, 1, 2>>
      [] t = T2020_01_31_235959 -> <<2020, 1, 31>>
      [] t = T2020_02_01_000000 -> <<2020, 2, 1>>

\* start <= d <= end for the date d of the instant t, or no filter
InRange(t, f) ==
    f.some => DateLe(f.start, UtcDate(t)) /\ DateLe(UtcDate(t), f.end)

\* The timestamp values of each entry that are in the range of the filter
KeptTimes(es, f) ==
    [i \in 1..Len(es) |-> {t \in DistinctTimes(es[i]) : InRange(t, f)}]

\* C6: an event is retained if and only if the UTC date d of its instant has
\* start <= d <= end, pre-epoch instants included; with no filter every event
\* is retained.
C6_FilterInclusive ==
    AfterBuild =>
        LET kept == KeptTimes(entries, filter)
            count == [i \in 1..Len(entries) |-> Cardinality(kept[i])]
        IN /\ Len(timeline) = Sum(count)
           /\ \A i \in 1..Len(entries) :
                 LET b == Block(timeline, count, i)
                 IN {b[j].datetime : j \in 1..Len(b)} = kept[i]

\* 1969-12-31..1970-01-01 and an entry with an instant on each side of each
\* bound: 1969-12-31T00:00:00 and 1970-01-01T23:59:59 are retained
C6_Witness ==
    /\ AfterBuild
    /\ filter = Filter1970
    /\ Len(entries) = 1
    /\ DistinctTimes(entries[1]) =
          {T1969_12_30_235959, T1969_12_31_000000, T1970_01_01_235959,
           T1970_01_02_000000}
    /\ {timeline[j].datetime : j \in 1..Len(timeline)} =
          {T1969_12_31_000000, T1970_01_01_235959}

(***************************************************************************)
(* C7                                                                      *)
(***************************************************************************)
\* tl is what is left of a timeline built of es without filter when the events
\* out of the range of f are deleted
RECURSIVE IsFilteredBuild(_, _, _)
IsFilteredBuild(tl, es, f) ==
    IF es = <<>> THEN tl = <<>>
    ELSE \E all \in EntryResults(Head(es), NoFilter) :
            LET Keep(e) == InRange(e.datetime, f)
                kept == SelectSeq(all, Keep)
            IN /\ Len(kept) <= Len(tl)
               /\ SubSeq(tl, 1, Len(kept)) = kept
               /\ IsFilteredBuild(Drop(tl, Len(kept)), Tail(es), f)

\* C7: filtering only removes events: the filtered timeline is the unfiltered
\* one less the events out of range, every retained event as it is without
\* filter, and the list of entries is the one parsed whatever the filter.
C7_FilterOnlyRemoves ==
    /\ AfterBuild => IsFilteredBuild(timeline, entries, filter)
    /\ pc \notin {"parse", "panicked"} => entries = ParsedEntries(lines, 0)

\* An entry with events on both sides of the range: some are retained, with
\* several flags, and some deleted
C7_Witness ==
    /\ AfterBuild
    /\ filter.some
    /\ Len(entries) >= 1
    /\ \E t1, t2 \in DistinctTimes(entries[1]) :
          InRange(t1, filter) /\ ~InRange(t2, filter)
    /\ \E j \in 1..Len(timeline) : Cardinality(Flags(timeline[j].macb)) > 1
    /\ Len(timeline) < Sum(DistinctCounts(entries))

(***************************************************************************)
(* C8                                                                      *)
(***************************************************************************)
\* The rows of the first n events of the timeline whose write does not fail
RECURSIVE RowsWritten(_)
RowsWritten(n) ==
    IF n = 0 THEN <<>>
    ELSE IF n \in sink_errors THEN RowsWritten(n - 1)
    ELSE Append(RowsWritten(n - 1), Row("csv_row", CsvRecord(timeline[n])))

WriteErrors == {i \in 1..Len(stderr) : stderr[i].kind = "Error writing CSV result"}

\* C8: a row whose write fails is skipped and the emission goes on: every event
\* is attempted once, in the order of the timeline, and the rows after the
\* header are the events whose write did not fail, in that order.
C8_FailedRowSkipped ==
    pc \in {"csv_rows", "done"} =>
        /\ \E h \in 1..Len(CsvSink) :
              /\ CsvSink[h] = CsvHeader
              /\ Drop(CsvSink, h) = RowsWritten(ci)
        /\ Cardinality(WriteErrors) = Cardinality(sink_errors \cap 1..ci)
        /\ pc = "done" => ci = Len(timeline)

\* The writes of the first two events fail and the third is written
C8_Witness ==
    /\ pc = "done"
    /\ Len(timeline) >= 3
    /\ {1, 2} \subseteq sink_errors
    /\ 3 \notin sink_errors
    /\ CsvSink[Len(CsvSink)].kind = "csv_row"

(***************************************************************************)
(* C9                                                                      *)
(***************************************************************************)
Occurrences(s, x) == Cardinality({i \in 1..Len(s) : s[i] = x})

IsPermutation(s, t) ==
    /\ Len(s) = Len(t)
    /\ \A x \in Range(s) \cup Range(t) : Occurrences(s, x) = Occurrences(t, x)

\* The events of s at the instant and of the name of e, in their order in s
SameInstantAndName(s, e) ==
    LET Same(x) == x.datetime = e.datetime /\ x.filename = e.filename
    IN SelectSeq(s, Same)

\* C9: sort_timeline only reorders: the sorted timeline is a permutation of the
\* builder's output, its instants do not decrease, and the events of one instant
\* and one name keep the order the builder gave them, whatever their category
\* set, meta and size.
C9_SortOnlyReorders ==
    [][(pc = "sort" /\ sorted) =>
          /\ IsPermutation(timeline, timeline')
          /\ \A i \in 1..(Len(timeline') - 1) :
                timeline'[i].datetime <= timeline'[i + 1].datetime
          /\ \A e \in Range(timeline) :
                SameInstantAndName(timeline', e) = SameInstantAndName(timeline, e)
      ]_vars

\* Two entries named "a" with the same two instants, the one of the greater
\* meta and size first in the file: the sort interleaves their events and
\* leaves the greater first at each instant
C9_Witness ==
    /\ pc = "built"
    /\ sorted
    /\ Len(timeline) = 4
    /\ timeline[1].datetime = timeline[2].datetime
    /\ timeline[2].datetime < timeline[3].datetime
    /\ \A i \in 1..4 : timeline[i].filename = "a"
    /\ timeline[1].size > timeline[2].size
    /\ timeline[3].size > timeline[4].size

(***************************************************************************)
(* C10                                                                     *)
(***************************************************************************)
\* The number of events each entry has in the range of the filter
KeptCounts(es, f) ==
    [i \in 1..Len(es) |-> Cardinality(KeptTimes(es, f)[i])]

\* C10: with sorted = true the timeline build returns is the same whatever the
\* iteration order of the maps of the entries; without sorting only the order of
\* the events of one entry depends on it, and the events of an entry come before
\* those of the entries after it.
C10_SortedOutputDeterministic ==
    pc = "built" =>
        \A other \in build_timeline(entries, filter) :
            LET count == KeptCounts(entries, filter)
            IN IF sorted
               THEN sort_timeline(other) = timeline
               ELSE /\ Len(other) = Len(timeline)
                    /\ Len(timeline) = Sum(count)
                    /\ \A i \in 1..Len(entries) :
                          Range(Block(other, count, i))
                              = Range(Block(timeline, count, i))

\* Two entries of two instants each, no filter: four iteration orders
C10_Witness ==
    /\ pc = "built"
    /\ sorted
    /\ Len(entries) = 2
    /\ Cardinality(build_timeline(entries, filter)) = 4
    /\ Len(timeline) = 4

====
